---- MODULE Spec2Model ----
(***************************************************************************)
(* Telegram RAG bot (tg_rag/bot.py, tg_rag_smolagents/bot.py, utils.py).   *)
(*                                                                         *)
(* Every inbound update is one handler task on the single event loop.  An  *)
(* action is the code a task runs between two await points: the call that  *)
(* is awaited is issued at the end of one action and its result is         *)
(* consumed at the start of the next.  The messaging transport             *)
(* (reply_text, get_file, download_to_drive) is an await point that        *)
(* returns; the parser, the vector store, the retriever and the            *)
(* chat-completion endpoint return or raise.                               *)
(***************************************************************************)
EXTENDS Integers, Sequences, FiniteSets, TLC

\* ------------------------------------------------------------------ bounds
MaxMsgs == 3
MaxChunks == 2
MaxInFlight == 2

\* retriever search_kwargs {"k": 5}
K == 5

\* ------------------------------------------------------------ value spaces
\* Optional values (Python None / a value) are <<>> / <<value>>.
None == <<>>
Some(x) == <<x>>

\* update.effective_user: None, or a user with an integer id.
Users == { None, Some([id |-> 7]), Some([id |-> 42]) }
Variants == {"tg_rag", "tg_rag_smolagents"}

DigitChars == <<"0", "1", "2", "3", "4", "5", "6", "7", "8", "9">>

\* Values of the ALLOWED_USER_ID environment variable (non-empty, or the
\* decorator raises at import time).
AllowedIdChoices == { <<"4", "2">>, <<"0", "4", "2">> }

\* Message texts are sequences of characters.
RESET == <<"R", "E", "S", "E", "T">>
Texts == { <<>>, RESET, RESET \o <<"!">>, <<"r", "e", "s", "e", "t">> }
FileNames == { <<>>, <<"a">> }

\* update.message: None, or a message with an optional text and an optional
\* document (a document message carries no text).
TextMsgs == { [text |-> t, document |-> None] : t \in {None} \cup { Some(x) : x \in Texts } }
DocMsgs == { [text |-> None, document |-> Some([file_name |-> f])] :
               f \in {None} \cup { Some(x) : x \in FileNames } }
Messages == {None} \cup { Some(m) : m \in TextMsgs \cup DocMsgs }

\* ------------------------------------------------------------ reply texts
R_RESET_OK == "Vector store reset successfully."
R_RESET_FAILED == "Failed to reset the vector store."
R_RESET_ERROR == "An error occurred while resetting the vector store: {e}"
R_INVALID_TEXT == "Please send a valid text message."
R_NO_DOCS == "No relevant documents found for your query."
R_LLM == "LLM's response: {response}"
R_QUERY_ERROR == "An error occurred while processing your query: {e}"
R_NO_BASE_URL == "OpenAI API base URL is missing. Please configure it."
R_NO_API_KEY == "OpenAI API key is missing. Please configure it."
R_NO_FILE_NAME == "File name is missing."
R_RECEIVED == "File '{file_name}' received. Processing..."
R_PROCESSED == "File processed successfully! Here's a preview:"
R_PREVIEW == "- {uuid}: {page_content[:100]}..."
R_FILE_ERROR == "An error occurred while processing the file: {e}"
R_CLEANED == "File cleaned up successfully."

VARIABLES AUTHORIZED_USER_ID, variant, tasks, uuids, store, files, nextId, resetsDone

vars == <<AUTHORIZED_USER_ID, variant, tasks, uuids, store, files, nextId, resetsDone>>

\* ------------------------------------------------------------ pure helpers
Range(s) == { s[i] : i \in 1..Len(s) }

\* str(int) for a non-negative integer: its decimal digits.
RECURSIVE Str(_)
Str(n) == IF n < 10 THEN <<DigitChars[n + 1]>>
          ELSE Str(n \div 10) \o <<DigitChars[(n % 10) + 1]>>

\* str.startswith
StartsWith(s, p) == Len(s) >= Len(p) /\ SubSeq(s, 1, Len(p)) = p

\* Mutant of Truthy: only None is falsy, the empty string passes.
TruthyNotNone(s) == s # None

\* Python truthiness of an optional string (None and "" are falsy).
Truthy(s) == s # None /\ s[1] # <<>>

\* Mutant of NewIds: identifiers restart at 1 for every batch.
NewIdsRestart(next, k) == [i \in 1..k |-> i]

\* ids = [str(uuid4()) for _ in splitted_docs]: k identifiers never drawn before.
NewIds(next, k) == [i \in 1..k |-> next + i]

\* Keys of {ids[i]: splitted_docs[i] for i in range(len(ids))}, in insertion
\* order: a repeated key keeps its first position.
RECURSIVE DictKeys(_)
DictKeys(ids) == IF ids = <<>> THEN <<>>
                 ELSE LET rest == DictKeys(SubSeq(ids, 1, Len(ids) - 1))
                          last == ids[Len(ids)]
                      IN IF last \in Range(rest) THEN rest ELSE Append(rest, last)

\* The argument of VECTOR_STORE.delete(uuids).
DeleteArg(u) == u

\* Mutant of Deleted: the delete empties the whole collection.
DeletedAll(st, arg) == {}

\* The store after a delete of the identifiers in arg that reports success.
Deleted(st, arg) == st \ Range(arg)

\* Mutant of DeleteSucceeded: the value the delete returns is ignored.
DeleteNotRaised(u, res) == u # <<>> /\ res # "raise"

\* `uuids and VECTOR_STORE.delete(uuids)` is truthy: the list is non-empty and
\* the delete returned True (res is "true", "false" or "raise").
DeleteSucceeded(u, res) == u # <<>> /\ res = "true"

\* Mutant of NoDocs: the empty result is not checked for.
NoDocsUnchecked(docs) == FALSE

\* `if not retrieved_docs`
NoDocs(docs) == docs = {}

\* Mutant of Extend: the list is rebound to the new keys instead of extended.
ExtendRebind(u, keys) == keys

\* uuids.extend(uuid_docs_mapping.keys()) on the list the global name is
\* bound to when the call runs.
Extend(u, keys) == u \o keys

\* int(s) for a string of decimal digits.
RECURSIVE IntOf(_)
IntOf(s) == IF s = <<>> THEN 0
            ELSE 10 * IntOf(SubSeq(s, 1, Len(s) - 1))
                 + (CHOOSE d \in 0..9 : DigitChars[d + 1] = s[Len(s)])

\* Mutant of Authorized: the identifiers are compared as integers.
AuthorizedAsInt(user) == user # None /\ user[1].id = IntOf(AUTHORIZED_USER_ID)

\* The comparison of the authorization gate.
Authorized(user) == user # None /\ Str(user[1].id) = AUTHORIZED_USER_ID

\* update.message.text and update.message.text.startswith("RESET")
IsReset(m) == Truthy(m.text) /\ StartsWith(m.text[1], RESET)

NoCalls == [parse |-> 0, insert |-> 0, retrieve |-> 0, llm |-> 0, delete |-> 0]

NewTask(user, m) ==
    [user |-> user, msg |-> m, invoked |-> FALSE, pc |-> "dropped",
     replies |-> <<>>, calls |-> NoCalls, err |-> "none",
     ids |-> <<>>, mapping |-> <<>>, inserted |-> {}, appended |-> <<>>,
     req |-> <<>>, delRes |-> "none", clearNo |-> 0, clearsAtInsert |-> 0,
     hits |-> 0, downloaded |-> FALSE, mutated |-> FALSE]

Reply(t, text) == Append(t.replies, text)

\* Whether the step changes the vector store contents or the identifier list.
Changed == store' # store \/ uuids' # uuids
Call(t, op) == [t.calls EXCEPT ![op] = @ + 1]

\* Handler tasks suspended at an await point.
InFlight == Cardinality({ i \in 1..Len(tasks) : tasks[i].pc \notin {"done", "dropped"} })

Init ==
    /\ AUTHORIZED_USER_ID \in AllowedIdChoices
    /\ variant \in Variants
    /\ tasks = <<>>
    /\ uuids = <<>>
    /\ store = {}
    /\ files = {}
    /\ nextId = 0
    /\ resetsDone = 0

\* ------------------------------------------------------- authorization gate
\* wrapped(): no effective user, or a user whose id does not match.  The
\* handler never sees the update, so the task keeps the sender alone.
DropEvent(user, m) ==
    /\ Len(tasks) < MaxMsgs
    /\ ~Authorized(user)
    /\ tasks' = Append(tasks, NewTask(user, None))
    /\ UNCHANGED <<AUTHORIZED_USER_ID, variant, uuids, store, files, nextId, resetsDone>>

\* handle_message: `if not update.message: return`
HandleNoMessage(user, m) ==
    /\ Len(tasks) < MaxMsgs
    /\ Authorized(user)
    /\ m = None
    /\ tasks' = Append(tasks, [NewTask(user, m) EXCEPT !.invoked = TRUE, !.pc = "done"])
    /\ UNCHANGED <<AUTHORIZED_USER_ID, variant, uuids, store, files, nextId, resetsDone>>

\* ------------------------------------------------------------------- reset
\* handle_reset / the RESET branch of handle_message.  VECTOR_STORE.delete is
\* a synchronous call: the test, the delete and `uuids = []` run in one step,
\* up to the await of the reply.  res is what the delete does when called.
HandleReset(user, m, res) ==
    /\ Len(tasks) < MaxMsgs
    /\ Authorized(user)
    /\ m # None
    /\ IsReset(m[1])
    /\ LET t0 == [NewTask(user, m) EXCEPT !.invoked = TRUE, !.pc = "done"]
           t1 == [t0 EXCEPT !.calls = Call(t0, "delete"),
                            !.req = DeleteArg(uuids), !.delRes = res]
       IN IF uuids = <<>>
          THEN /\ res = "false"
               /\ UNCHANGED <<uuids, store, resetsDone>>
               /\ tasks' = Append(tasks, [t0 EXCEPT !.replies = Reply(t0, R_RESET_FAILED)])
          ELSE CASE DeleteSucceeded(uuids, res) ->
                      /\ store' = Deleted(store, DeleteArg(uuids))
                      /\ uuids' = <<>>
                      /\ resetsDone' = resetsDone + 1
                      /\ tasks' = Append(tasks,
                             [t1 EXCEPT !.replies = Reply(t1, R_RESET_OK),
                                        !.clearNo = resetsDone + 1,
                                        !.mutated = Changed])
                 [] res = "raise" ->
                      /\ UNCHANGED <<uuids, store, resetsDone>>
                      /\ tasks' = Append(tasks,
                             [t1 EXCEPT !.replies = Reply(t1, R_RESET_ERROR),
                                        !.err = "delete"])
                 [] OTHER ->
                      /\ UNCHANGED <<uuids, store, resetsDone>>
                      /\ tasks' = Append(tasks,
                             [t1 EXCEPT !.replies = Reply(t1, R_RESET_FAILED)])
    /\ UNCHANGED <<AUTHORIZED_USER_ID, variant, files, nextId>>

\* ------------------------------------------------------------------- query
\* What RETIREVER.invoke returns: at most k chunks of the store.
Retrievable == { d \in SUBSET store : Cardinality(d) <= K }

\* handle_text_message for a message without usable text.
HandleInvalidText(user, m) ==
    /\ Len(tasks) < MaxMsgs
    /\ Authorized(user)
    /\ m # None
    /\ ~IsReset(m[1])
    /\ m[1].document = None
    /\ ~Truthy(m[1].text)
    /\ LET t0 == [NewTask(user, m) EXCEPT !.invoked = TRUE, !.pc = "done"]
       IN tasks' = Append(tasks, [t0 EXCEPT !.replies = Reply(t0, R_INVALID_TEXT)])
    /\ UNCHANGED <<AUTHORIZED_USER_ID, variant, uuids, store, files, nextId, resetsDone>>

\* handle_text_message, the retrieval raises: RETIREVER.invoke is synchronous.
HandleQueryRetrieveFails(user, m) ==
    /\ Len(tasks) < MaxMsgs
    /\ Authorized(user)
    /\ m # None
    /\ ~IsReset(m[1])
    /\ m[1].document = None
    /\ Truthy(m[1].text)
    /\ LET t0 == [NewTask(user, m) EXCEPT !.invoked = TRUE, !.pc = "done"]
       IN tasks' = Append(tasks, [t0 EXCEPT !.calls = Call(t0, "retrieve"),
                                            !.err = "retrieve",
                                            !.replies = Reply(t0, R_QUERY_ERROR)])
    /\ UNCHANGED <<AUTHORIZED_USER_ID, variant, uuids, store, files, nextId, resetsDone>>

\* handle_text_message, the retrieval returns docs.  base_url and api_key are
\* whether os.getenv finds OPENAI_API_BASE_URL and OPENAI_API_KEY at the call.
HandleQuery(user, m, docs, base_url, api_key) ==
    /\ Len(tasks) < MaxMsgs
    /\ InFlight < MaxInFlight
    /\ Authorized(user)
    /\ m # None
    /\ ~IsReset(m[1])
    /\ m[1].document = None
    /\ Truthy(m[1].text)
    /\ docs \in Retrievable
    /\ LET t0 == [NewTask(user, m) EXCEPT !.invoked = TRUE, !.pc = "done",
                                          !.calls = Call(NewTask(user, m), "retrieve"),
                                          !.hits = Cardinality(docs)]
       IN tasks' = Append(tasks,
            IF NoDocs(docs)
            THEN [t0 EXCEPT !.replies = Reply(t0, R_NO_DOCS)]
            ELSE IF ~base_url
            THEN [t0 EXCEPT !.replies = Reply(t0,
                     IF variant = "tg_rag" THEN R_QUERY_ERROR ELSE R_NO_BASE_URL)]
            ELSE IF ~api_key
            THEN [t0 EXCEPT !.replies = Reply(t0,
                     IF variant = "tg_rag" THEN R_QUERY_ERROR ELSE R_NO_API_KEY)]
            ELSE [t0 EXCEPT !.calls = Call(t0, "llm"), !.pc = "llm"])
    /\ UNCHANGED <<AUTHORIZED_USER_ID, variant, uuids, store, files, nextId, resetsDone>>

\* await model.ainvoke(messages) returns or raises.
LlmReturn(i, ok) ==
    /\ i \in 1..Len(tasks)
    /\ tasks[i].pc = "llm"
    /\ LET t == tasks[i]
       IN tasks' = [tasks EXCEPT ![i] =
            IF ok THEN [t EXCEPT !.pc = "done", !.replies = Reply(t, R_LLM)]
            ELSE [t EXCEPT !.pc = "done", !.err = "llm",
                           !.replies = Reply(t, R_QUERY_ERROR)]]
    /\ UNCHANGED <<AUTHORIZED_USER_ID, variant, uuids, store, files, nextId, resetsDone>>

\* ------------------------------------------------------------------ upload
\* file_path = UPLOAD_DIR / str(file.file_name)
FilePath(t) == t.msg[1].document[1].file_name[1]

\* handle_file_upload: `if not file.file_name`
HandleUploadNoName(user, m) ==
    /\ Len(tasks) < MaxMsgs
    /\ Authorized(user)
    /\ m # None
    /\ ~IsReset(m[1])
    /\ m[1].document # None
    /\ ~Truthy(m[1].document[1].file_name)
    /\ LET t0 == [NewTask(user, m) EXCEPT !.invoked = TRUE, !.pc = "done"]
       IN tasks' = Append(tasks, [t0 EXCEPT !.replies = Reply(t0, R_NO_FILE_NAME)])
    /\ UNCHANGED <<AUTHORIZED_USER_ID, variant, uuids, store, files, nextId, resetsDone>>

\* handle_file_upload up to `await file.get_file()`
HandleUpload(user, m) ==
    /\ Len(tasks) < MaxMsgs
    /\ InFlight < MaxInFlight
    /\ Authorized(user)
    /\ m # None
    /\ ~IsReset(m[1])
    /\ m[1].document # None
    /\ Truthy(m[1].document[1].file_name)
    /\ tasks' = Append(tasks, [NewTask(user, m) EXCEPT !.invoked = TRUE, !.pc = "get_file"])
    /\ UNCHANGED <<AUTHORIZED_USER_ID, variant, uuids, store, files, nextId, resetsDone>>

\* get_file returned: reply "received", awaited.
GetFileReturn(i) ==
    /\ i \in 1..Len(tasks)
    /\ tasks[i].pc = "get_file"
    /\ tasks' = [tasks EXCEPT ![i] = [tasks[i] EXCEPT !.pc = "ack", !.replies = Reply(tasks[i], R_RECEIVED)]]
    /\ UNCHANGED <<AUTHORIZED_USER_ID, variant, uuids, store, files, nextId, resetsDone>>

\* the reply returned: await file_data.download_to_drive(file_path)
AckReturn(i) ==
    /\ i \in 1..Len(tasks)
    /\ tasks[i].pc = "ack"
    /\ tasks' = [tasks EXCEPT ![i] = [tasks[i] EXCEPT !.pc = "download"]]
    /\ UNCHANGED <<AUTHORIZED_USER_ID, variant, uuids, store, files, nextId, resetsDone>>

\* the download returned (the file is on disk): process_file calls
\* parse_document and awaits it.
DownloadReturn(i) ==
    /\ i \in 1..Len(tasks)
    /\ tasks[i].pc = "download"
    /\ files' = files \cup {FilePath(tasks[i])}
    /\ tasks' = [tasks EXCEPT ![i] = [tasks[i] EXCEPT !.pc = "parse", !.downloaded = TRUE,
                                               !.calls = Call(tasks[i], "parse")]]
    /\ UNCHANGED <<AUTHORIZED_USER_ID, variant, uuids, store, nextId, resetsDone>>

\* Mutant of OnProcessError: the failed call is made again, without a reply.
OnProcessErrorRetry(t, op) ==
    [t EXCEPT !.pc = op, !.err = op, !.calls = [t.calls EXCEPT ![op] = @ + 1]]

\* `except Exception` around process_file: reply with the error and await.
OnProcessError(t, op) ==
    [t EXCEPT !.pc = "error_reply", !.err = op, !.replies = Reply(t, R_FILE_ERROR)]

\* parse_document raised.
ParseFails(i) ==
    /\ i \in 1..Len(tasks)
    /\ tasks[i].pc = "parse"
    /\ tasks' = [tasks EXCEPT ![i] = OnProcessError(tasks[i], "parse")]
    /\ UNCHANGED <<AUTHORIZED_USER_ID, variant, uuids, store, files, nextId, resetsDone>>

\* parse_document returned: update_store splits the docs into k chunks, draws
\* one identifier per chunk and awaits vector_store.aadd_documents.
ParseReturn(i, k) ==
    /\ i \in 1..Len(tasks)
    /\ tasks[i].pc = "parse"
    /\ k \in 0..MaxChunks
    /\ nextId' = nextId + k
    /\ tasks' = [tasks EXCEPT ![i] = [tasks[i] EXCEPT !.pc = "insert", !.ids = NewIds(nextId, k),
                                               !.calls = Call(tasks[i], "insert")]]
    /\ UNCHANGED <<AUTHORIZED_USER_ID, variant, uuids, store, files, resetsDone>>

\* aadd_documents returned: the records are in the store; update_store returns
\* the mapping; process_file replies "processed" and awaits.
InsertReturn(i) ==
    /\ i \in 1..Len(tasks)
    /\ tasks[i].pc = "insert"
    /\ store' = store \cup Range(tasks[i].ids)
    /\ UNCHANGED uuids
    /\ tasks' = [tasks EXCEPT ![i] = [tasks[i] EXCEPT !.pc = "processed_reply",
                                               !.inserted = Range(tasks[i].ids),
                                               !.mapping = DictKeys(tasks[i].ids),
                                               !.clearsAtInsert = resetsDone,
                                               !.mutated = @ \/ Changed,
                                               !.replies = Reply(tasks[i], R_PROCESSED)]]
    /\ UNCHANGED <<AUTHORIZED_USER_ID, variant, files, nextId, resetsDone>>

\* aadd_documents raised after writing the first j records of the batch (no
\* rollback follows): the except branch replies and awaits.
InsertFails(i, j) ==
    /\ i \in 1..Len(tasks)
    /\ tasks[i].pc = "insert"
    /\ j \in 0..Len(tasks[i].ids)
    /\ j = 0 \/ j < Len(tasks[i].ids)
    /\ store' = store \cup Range(SubSeq(tasks[i].ids, 1, j))
    /\ UNCHANGED uuids
    /\ tasks' = [tasks EXCEPT ![i] =
            [OnProcessError(tasks[i], "insert") EXCEPT
                !.inserted = Range(SubSeq(tasks[i].ids, 1, j)),
                !.clearsAtInsert = resetsDone,
                !.mutated = @ \/ Changed]]
    /\ UNCHANGED <<AUTHORIZED_USER_ID, variant, files, nextId, resetsDone>>

\* the "processed" reply returned: the loop over the mapping replies with the
\* first entry and breaks; with an empty mapping the loop body never runs and
\* uuids.extend follows at once.
ProcessedReplyReturn(i) ==
    /\ i \in 1..Len(tasks)
    /\ tasks[i].pc = "processed_reply"
    /\ IF tasks[i].mapping # <<>>
       THEN /\ UNCHANGED uuids
            /\ tasks' = [tasks EXCEPT ![i] = [tasks[i] EXCEPT !.pc = "preview_reply",
                                                       !.replies = Reply(tasks[i], R_PREVIEW)]]
       ELSE /\ uuids' = Extend(uuids, tasks[i].mapping)
            /\ tasks' = [tasks EXCEPT ![i] = [tasks[i] EXCEPT !.pc = "done",
                                                       !.appended = tasks[i].mapping]]
    /\ UNCHANGED <<AUTHORIZED_USER_ID, variant, store, files, nextId, resetsDone>>

\* the preview reply returned: uuids.extend(uuid_docs_mapping.keys())
PreviewReplyReturn(i) ==
    /\ i \in 1..Len(tasks)
    /\ tasks[i].pc = "preview_reply"
    /\ uuids' = Extend(uuids, tasks[i].mapping)
    /\ UNCHANGED store
    /\ tasks' = [tasks EXCEPT ![i] = [tasks[i] EXCEPT !.pc = "done", !.appended = tasks[i].mapping,
                                               !.mutated = @ \/ Changed]]
    /\ UNCHANGED <<AUTHORIZED_USER_ID, variant, files, nextId, resetsDone>>

\* the error reply returned: await cleanup_file(file_path)
ErrorReplyReturn(i) ==
    /\ i \in 1..Len(tasks)
    /\ tasks[i].pc = "error_reply"
    /\ tasks' = [tasks EXCEPT ![i] = [tasks[i] EXCEPT !.pc = "cleanup"]]
    /\ UNCHANGED <<AUTHORIZED_USER_ID, variant, uuids, store, files, nextId, resetsDone>>

\* cleanup_file returned (unlink(missing_ok=True)): reply "cleaned up".
CleanupReturn(i) ==
    /\ i \in 1..Len(tasks)
    /\ tasks[i].pc = "cleanup"
    /\ files' = files \ {FilePath(tasks[i])}
    /\ tasks' = [tasks EXCEPT ![i] = [tasks[i] EXCEPT !.pc = "done", !.replies = Reply(tasks[i], R_CLEANED)]]
    /\ UNCHANGED <<AUTHORIZED_USER_ID, variant, uuids, store, nextId, resetsDone>>

\* ------------------------------------------------------------ specification
Tasks == 1..MaxMsgs

Next ==
    \/ \E user \in Users, m \in Messages : DropEvent(user, m)
    \/ \E user \in Users, m \in Messages : HandleNoMessage(user, m)
    \/ \E user \in Users, m \in Messages, res \in {"true", "false", "raise"} :
          HandleReset(user, m, res)
    \/ \E user \in Users, m \in Messages : HandleInvalidText(user, m)
    \/ \E user \in Users, m \in Messages : HandleQueryRetrieveFails(user, m)
    \/ \E user \in Users, m \in Messages, docs \in SUBSET store, b, a \in BOOLEAN :
          HandleQuery(user, m, docs, b, a)
    \/ \E i \in Tasks, ok \in BOOLEAN : LlmReturn(i, ok)
    \/ \E user \in Users, m \in Messages : HandleUploadNoName(user, m)
    \/ \E user \in Users, m \in Messages : HandleUpload(user, m)
    \/ \E i \in Tasks : GetFileReturn(i)
    \/ \E i \in Tasks : AckReturn(i)
    \/ \E i \in Tasks : DownloadReturn(i)
    \/ \E i \in Tasks : ParseFails(i)
    \/ \E i \in Tasks, k \in 0..MaxChunks : ParseReturn(i, k)
    \/ \E i \in Tasks : InsertReturn(i)
    \/ \E i \in Tasks, j \in 0..MaxChunks : InsertFails(i, j)
    \/ \E i \in Tasks : ProcessedReplyReturn(i)
    \/ \E i \in Tasks : PreviewReplyReturn(i)
    \/ \E i \in Tasks : ErrorReplyReturn(i)
    \/ \E i \in Tasks : CleanupReturn(i)

Spec == Init /\ [][Next]_vars

\* ------------------------------------------------------------- properties
TaskIds == 1..Len(tasks)
Finished(t) == t.pc \in {"done", "dropped"}
Quiescent == \A i \in TaskIds : Finished(tasks[i])
IsUpload(t) == t.invoked /\ t.msg # None /\ t.msg[1].document # None
IsQuery(t) == /\ t.invoked /\ t.msg # None /\ t.msg[1].document = None
              /\ t.msg[1].text \notin {None, Some(<<>>)}
              /\ ~StartsWith(t.msg[1].text[1], RESET)
IsResetTask(t) == /\ t.invoked /\ t.msg # None
                  /\ t.msg[1].text \notin {None, Some(<<>>)}
                  /\ StartsWith(t.msg[1].text[1], RESET)
ErrorReplies == {R_RESET_FAILED, R_RESET_ERROR, R_INVALID_TEXT, R_QUERY_ERROR,
                 R_NO_FILE_NAME, R_FILE_ERROR}

\* C1: the wrapped handler is invoked for an event if and only if the event
\* has an effective user whose id, as a decimal string, equals
\* ALLOWED_USER_ID; for every other event the handler is not invoked, no
\* reply is sent and no upstream call is made.
C1_GateIffSenderMatches ==
    \A i \in TaskIds :
        LET t == tasks[i]
        IN /\ t.invoked <=> (t.user # None /\ Str(t.user[1].id) = AUTHORIZED_USER_ID)
           /\ ~t.invoked => /\ t.replies = <<>>
                            /\ t.calls = NoCalls
                            /\ t.pc = "dropped"
                            /\ ~t.mutated

\* C1 witness: one sender is let through and has been answered, one event
\* has no sender and one has a sender with another id, both dropped.
C1_Witness ==
    /\ \E i \in TaskIds : tasks[i].invoked /\ tasks[i].replies # <<>>
    /\ \E i \in TaskIds : ~tasks[i].invoked /\ tasks[i].user = None
    /\ \E i \in TaskIds : ~tasks[i].invoked /\ tasks[i].user # None

\* C2 (as claimed): every upload whose file was downloaded ends with the
\* file no longer on disk.
C2_FileDeletedAfterProcessing ==
    \A i \in TaskIds :
        (tasks[i].downloaded /\ tasks[i].pc = "done") => FilePath(tasks[i]) \notin files

\* C3 (as claimed): once every handled message is finished, uuids holds
\* exactly the identifiers of the records inserted and not deleted.
C3_UuidsTrackStore ==
    Quiescent => Range(uuids) = store

\* C4: a reset step empties uuids only when the list was non-empty and the
\* delete of exactly those identifiers returned true, and then replies
\* "Vector store reset successfully."; otherwise uuids is unchanged, no
\* delete is issued for an empty list and a failure or error reply is sent.
\* No other step empties a non-empty list.
C4_ResetOnlyOnSuccess ==
    [][ LET n == Len(tasks')
            t == tasks'[n]
        IN /\ (n = Len(tasks) + 1 /\ IsResetTask(t)) =>
                 IF uuids # <<>> /\ t.delRes = "true"
                 THEN /\ uuids' = <<>>
                      /\ t.req = uuids
                      /\ t.calls.delete = 1
                      /\ t.replies = <<R_RESET_OK>>
                 ELSE /\ uuids' = uuids
                      /\ store' = store
                      /\ uuids = <<>> => (t.calls.delete = 0 /\ t.delRes = "none")
                      /\ t.replies \in {<<R_RESET_FAILED>>, <<R_RESET_ERROR>>}
           /\ (uuids # <<>> /\ uuids' = <<>>) =>
                 (n = Len(tasks) + 1 /\ IsResetTask(t) /\ t.delRes = "true")
      ]_vars

\* C4 witness: one reset found the list non-empty and cleared it, and the
\* next reset found it empty and was refused without a delete.
C4_Witness ==
    /\ \E i \in TaskIds : /\ IsResetTask(tasks[i]) /\ tasks[i].delRes = "true"
                          /\ tasks[i].req # <<>> /\ tasks[i].replies = <<R_RESET_OK>>
    /\ \E i \in TaskIds : /\ IsResetTask(tasks[i]) /\ tasks[i].calls.delete = 0
                          /\ tasks[i].replies = <<R_RESET_FAILED>>
    /\ uuids = <<>>
    /\ store = {}

\* C5: a non-empty text query for which the retriever returns no chunks gets
\* exactly one reply, "No relevant documents found for your query.", and
\* makes no chat-completion call.
C5_NoDocsNoCompletion ==
    \A i \in TaskIds :
        LET t == tasks[i]
        IN (IsQuery(t) /\ t.err # "retrieve" /\ t.hits = 0) =>
              /\ t.replies = <<R_NO_DOCS>>
              /\ t.calls.llm = 0
              /\ t.calls.retrieve = 1
              /\ t.pc = "done"

\* C5 witness: a query found nothing while the store held records.
C5_Witness ==
    /\ store # {}
    /\ \E i \in TaskIds : /\ IsQuery(tasks[i]) /\ tasks[i].err # "retrieve"
                          /\ tasks[i].hits = 0 /\ tasks[i].replies = <<R_NO_DOCS>>

\* C6: identifiers are never assigned twice (not within a batch, not across
\* batches, not in uuids), and an ingestion appends to uuids exactly the keys
\* of the mapping update_store returned, which are the identifiers inserted.
C6_FreshIdsAndMappingKeys ==
    /\ Cardinality(Range(uuids)) = Len(uuids)
    /\ \A i \in TaskIds :
          LET t == tasks[i]
          IN /\ Cardinality(Range(t.ids)) = Len(t.ids)
             /\ \A j \in TaskIds : j # i => Range(t.ids) \cap Range(tasks[j].ids) = {}
             /\ (IsUpload(t) /\ t.pc = "done" /\ t.err = "none") =>
                   /\ Range(t.appended) = Range(t.mapping)
                   /\ Range(t.mapping) = t.inserted
                   /\ Len(t.appended) = Len(t.ids)

\* C6 witness: two ingestions appended their batches, one of two chunks.
C6_Witness ==
    \E i, j \in TaskIds :
        /\ i # j
        /\ Len(tasks[i].appended) = 2
        /\ tasks[j].appended # <<>>
        /\ Range(tasks[i].appended) \cup Range(tasks[j].appended) \subseteq Range(uuids)

\* An ingestion that wrote records and has not appended their identifiers.
Untracked(t) ==
    /\ t.inserted # {}
    /\ \/ t.pc \in {"processed_reply", "preview_reply", "error_reply", "cleanup"}
       \/ t.pc = "done" /\ t.err = "insert"

InputError(t) ==
    /\ t.invoked /\ t.msg # None /\ ~IsResetTask(t)
    /\ \/ t.msg[1].document # None /\ t.msg[1].document[1].file_name \in {None, Some(<<>>)}
       \/ t.msg[1].document = None /\ t.msg[1].text \in {None, Some(<<>>)}
       \/ t.msg[1].document # None /\ t.err = "parse"

\* C8: a message that is an input error gets an error reply, and none of its
\* steps changes the vector store or uuids.
C8_InputErrorNoMutation ==
    \A i \in TaskIds :
        LET t == tasks[i]
        IN InputError(t) =>
              /\ \E k \in 1..Len(t.replies) : t.replies[k] \in ErrorReplies
              /\ ~t.mutated
              /\ t.inserted = {} /\ t.appended = <<>>
              /\ t.calls.insert = 0

\* C8 witness: the three kinds of input error have been answered while the
\* store held records.
C8_Witness ==
    /\ store # {}
    /\ \E i \in TaskIds : InputError(tasks[i]) /\ tasks[i].err = "parse" /\ tasks[i].pc = "done"
    /\ \E i \in TaskIds : InputError(tasks[i]) /\ tasks[i].replies = <<R_NO_FILE_NAME>>

\* C9: a failure of the parser, the insert, the retrieval or the completion
\* call is caught in the handler (the task is in its except branch or done),
\* the user gets a failure reply, no upstream call is made twice for a
\* message, and the task can always take its next step until it is done.
C9_FailureCaughtNoRetry ==
    \A i \in TaskIds :
        LET t == tasks[i]
        IN /\ \A op \in DOMAIN t.calls : t.calls[op] <= 1
           /\ t.err \in {"parse", "insert"} =>
                 /\ t.pc \in {"error_reply", "cleanup", "done"}
                 /\ \E k \in 1..Len(t.replies) : t.replies[k] = R_FILE_ERROR
           /\ t.err \in {"retrieve", "llm"} =>
                 /\ t.pc = "done"
                 /\ t.replies = <<R_QUERY_ERROR>>
           /\ t.pc = "error_reply" => ENABLED ErrorReplyReturn(i)
           /\ t.pc = "cleanup" => ENABLED CleanupReturn(i)

\* C9 witness: one message failed in the parser, one in the insert, and a
\* message received after both was ingested.
C9_Witness ==
    \E i, j, k \in TaskIds :
        /\ i < k /\ j < k
        /\ tasks[i].err = "parse" /\ tasks[i].pc = "done"
        /\ tasks[j].err = "insert" /\ tasks[j].pc = "done"
        /\ IsUpload(tasks[k]) /\ tasks[k].pc = "done" /\ tasks[k].err = "none"
        /\ tasks[k].appended # <<>>

\* C10: identifiers leave uuids only in a reset step, and only identifiers
\* of the delete request that step issued on the list as it stood (delete
\* and clear are one step); an ingestion's extend appends its mapping keys
\* to the list as it stands when extend runs.
C10_ResetDropsOnlyRequested ==
    [][ LET n == Len(tasks')
            t == tasks'[n]
            dropped == Range(uuids) \ Range(uuids')
        IN /\ dropped # {} =>
                 /\ n = Len(tasks) + 1
                 /\ IsResetTask(t)
                 /\ t.delRes = "true"
                 /\ t.req = uuids
                 /\ dropped \subseteq Range(t.req)
           /\ \A i \in TaskIds :
                 (tasks[i].pc \in {"processed_reply", "preview_reply"} /\ tasks'[i].pc = "done") =>
                     /\ uuids' = uuids \o tasks[i].mapping
                     /\ tasks'[i].appended = tasks[i].mapping
      ]_vars

\* C10 witness: an ingestion in flight across a reset that cleared the list
\* has appended its identifiers, and they are in uuids.
C10_Witness ==
    \E i, r \in TaskIds :
        /\ i < r
        /\ IsResetTask(tasks[r]) /\ tasks[r].clearNo >= 1
        /\ tasks[i].appended # <<>>
        /\ tasks[i].clearsAtInsert < tasks[r].clearNo
        /\ Range(tasks[i].appended) \subseteq Range(uuids)
====
